---- MODULE Spec2Model ----
(***************************************************************************)
(* The EmailService dispatcher of src/unnamed/part_000 (the same logic,    *)
(* with a hard-wired roster and "-" as key separator, is in                *)
(* src/emailService.js): idempotency cache, fixed-window rate limiter,     *)
(* retry loop with exponential backoff and provider rotation.              *)
(*                                                                         *)
(* One EmailService instance is modelled.  Every sendEmail call is a       *)
(* process; a step of the model is the code that runs between two awaits   *)
(* of that call (JavaScript runs it without interruption).  The interval   *)
(* timer of startRateLimitWindow is one more process.                      *)
(***************************************************************************)
EXTENDS Integers, Sequences, FiniteSets, TLC

\* ---------------------------------------------------------------- bounds
MaxCalls == 3       \* sendEmail calls made on the instance
MaxMsgs == 2        \* messages without a separator character
MaxInFlight == 2    \* calls suspended at an await at the same time
MaxProviders == 2   \* longest roster handed to the constructor
MaxSeqCalls == 4    \* sendEmail calls made one after the other (SeqSpec)
MaxSeqMsgs == 3     \* messages without a separator character (SeqSpec)

\* ------------------------------------------------------ program constants
maxRetries == 3
retryDelay == 1000
rateLimit == 2

\* Number.NaN, the value of (i + 1) % 0
NaN == -1

\* ---------------------------------------------------------------- inputs
\* A string is a sequence of characters, a message a triple of strings:
\* two messages whose fields differ only in where the ":" stands, and
\* MaxMsgs messages without a ":" that differ in the body.
CollidingPair ==
  { << <<"a", ":">>, <<>>, <<"b">> >>,
    << <<"a">>, <<":">>, <<"b">> >> }

Plain(i) == << <<"c">>, <<"s">>, [j \in 1..i |-> "b"] >>

Messages == CollidingPair \cup {Plain(i) : i \in 1..MaxMsgs}

\* What a provider's send can do when it is invoked: Provider1 and
\* Provider2 fail at random; "ok" and "fail" are the always-succeeding
\* and always-failing implementations of the EmailProvider interface.
Behaviours == {"ok", "fail", "random"}

\* [P1 (always fails), P2 (always succeeds)]
ScenarioRoster == <<"fail", "ok">>

Results(b) == IF b = "ok" THEN {"ok"} ELSE IF b = "fail" THEN {"fail"} ELSE {"ok", "fail"}

\* the lists handed to the constructor: up to MaxProviders providers that
\* fail at random, and the roster above
Rosters == {[i \in 1..n |-> "random"] : n \in 0..MaxProviders} \cup {ScenarioRoster}

Calls == 1..MaxCalls

VARIABLES providers, currentProviderIndex, emailCache, sentEmails, calls, window, prev

vars == <<providers, currentProviderIndex, emailCache, sentEmails, calls, window, prev>>

\* ------------------------------------------------------------- helpers
\* `${email}:${subject}:${body}`
generateCacheKey(m) == m[1] \o <<":">> \o m[2] \o <<":">> \o m[3]

\* this.emailCache.add(cacheKey)
CacheAdd_Skip(cache, key) == cache
CacheAdd(cache, key) == cache \cup {key}

\* this.sentEmails >= this.rateLimit
RateLimitExceeded_Off(sent) == sent > rateLimit
RateLimitExceeded_Double(sent) == sent >= 2 * rateLimit
RateLimitExceeded(sent) == sent >= rateLimit

RECURSIVE Pow(_, _)
Pow(b, e) == IF e = 0 THEN 1 ELSE b * Pow(b, e - 1)

\* this.retryDelay * Math.pow(2, attempt - 1)
BackoffDelay_Linear(attempt) == retryDelay * attempt
BackoffDelay(attempt) == retryDelay * Pow(2, attempt - 1)

\* (this.currentProviderIndex + 1) % this.providers.length
switchProvider(i, n) == IF i = NaN \/ n = 0 THEN NaN ELSE (i + 1) % n

\* this.providers[i] is an object (not undefined)
HasProvider(i) == i # NaN /\ i + 1 \in 1..Len(providers)

\* ------------------------------------------------------------- events
\* updateStatus(message, isError, displayDuration) and log(message); k is
\* the kind of message, attempt and provider what the text interpolates.
Status(k, isError, ms, attempt, provider) ==
  [t |-> "status", k |-> k, isError |-> isError, ms |-> ms, attempt |-> attempt, provider |-> provider]

Log(k, attempt, provider) ==
  [t |-> "log", k |-> k, isError |-> FALSE, ms |-> 0, attempt |-> attempt, provider |-> provider]

Emit_NoLog(s, st, lg) == [s EXCEPT !.c.out = @ \o <<st>>]
Emit(s, st, lg) == [s EXCEPT !.c.out = @ \o <<st, lg>>]

\* ---------------------------------------------------- sendEmail, by parts
\* s = [emailCache, sentEmails, idx, c]: the instance's fields and the
\* record of the call that is running.

\* if (this.emailCache.has(cacheKey)) { updateStatus; log; return; }
DuplicateReturn_Count(s) ==
  [Emit(s, Status("duplicate", TRUE, 3000, 0, NaN), Log("duplicate", 0, NaN))
     EXCEPT !.c.pc = "done", !.sentEmails = @ + 1]
DuplicateReturn(s) ==
  [Emit(s, Status("duplicate", TRUE, 3000, 0, NaN), Log("duplicate", 0, NaN))
     EXCEPT !.c.pc = "done"]

\* if (this.sentEmails >= this.rateLimit) { updateStatus; log; return; }
RateLimitReturn_Count(s) ==
  [Emit(s, Status("ratelimited", TRUE, 3000, 0, NaN), Log("ratelimited", 0, NaN))
     EXCEPT !.c.pc = "done", !.sentEmails = @ + 1]
RateLimitReturn(s) ==
  [Emit(s, Status("ratelimited", TRUE, 3000, 0, NaN), Log("ratelimited", 0, NaN))
     EXCEPT !.c.pc = "done"]

\* catch (error) { updateStatus; log; await this.sleep(delay); }
CatchSendError_Rethrow(s) == [s EXCEPT !.c.pc = "thrown"]
CatchSendError_NoWait(s) ==
  IF HasProvider(s.idx)
  THEN [Emit(s, Status("failed", TRUE, 3000, s.c.attempt, NaN), Log("failed", s.c.attempt, NaN))
          EXCEPT !.c.pc = "awaitSend", !.c.attempt = @ + 1, !.c.sends = @ + 1, !.c.target = s.idx]
  ELSE [Emit(s, Status("failed", TRUE, 3000, s.c.attempt, NaN), Log("failed", s.c.attempt, NaN))
          EXCEPT !.c.pc = "sleep", !.c.slept = Append(@, BackoffDelay(s.c.attempt))]
CatchSendError(s) ==
  [Emit(s, Status("failed", TRUE, 3000, s.c.attempt, NaN), Log("failed", s.c.attempt, NaN))
     EXCEPT !.c.pc = "sleep", !.c.slept = Append(@, BackoffDelay(s.c.attempt))]

\* try { await this.providers[this.currentProviderIndex].send(...) }:
\* the provider is invoked, or the member access on undefined throws a
\* TypeError inside the try block.
TrySend(s) ==
  IF HasProvider(s.idx)
  THEN [s EXCEPT !.c.pc = "awaitSend", !.c.target = s.idx, !.c.sends = @ + 1]
  ELSE CatchSendError(s)

\* the body of sendEmail up to its first await
sendEmail_CheckFirst(s) ==
  LET cacheKey == generateCacheKey(s.c.msg) IN
  IF cacheKey \in s.emailCache
  THEN DuplicateReturn(s)
  ELSE IF RateLimitExceeded(s.sentEmails)
       THEN RateLimitReturn(s)
       ELSE TrySend([s EXCEPT !.emailCache = CacheAdd(@, cacheKey),
                              !.sentEmails = @ + 1, !.c.attempt = 1])
sendEmail(s) ==
  LET cacheKey == generateCacheKey(s.c.msg) IN
  IF cacheKey \in s.emailCache
  THEN DuplicateReturn(s)
  ELSE LET s1 == [s EXCEPT !.emailCache = CacheAdd(@, cacheKey)] IN
       IF RateLimitExceeded(s1.sentEmails)
       THEN RateLimitReturn(s1)
       ELSE TrySend([s1 EXCEPT !.sentEmails = @ + 1, !.c.attempt = 1])

\* the send resolved: updateStatus(success naming the provider at the
\* current index); log; return
SendSucceeded(s) ==
  [Emit(s, Status("success", FALSE, 2000, 0, s.idx), Log("success", s.c.attempt, NaN))
     EXCEPT !.c.pc = "done"]

\* after the loop: switchProvider(); updateStatus; log;
\* return this.sendEmail(email, subject, body)
Exhausted_Refund(s) ==
  LET s1 == [s EXCEPT !.idx = switchProvider(@, Len(providers)), !.sentEmails = @ - 1]
      s2 == Emit(s1, Status("switched", TRUE, 3000, 0, NaN), Log("switched", 0, NaN))
  IN sendEmail([s2 EXCEPT !.c.cycle = @ + 1])
Exhausted_Forget(s) ==
  LET s1 == [s EXCEPT !.idx = switchProvider(@, Len(providers)),
                      !.emailCache = @ \ {generateCacheKey(s.c.msg)}]
      s2 == Emit(s1, Status("switched", TRUE, 3000, 0, NaN), Log("switched", 0, NaN))
  IN sendEmail([s2 EXCEPT !.c.cycle = @ + 1])
Exhausted(s) ==
  LET s1 == [s EXCEPT !.idx = switchProvider(@, Len(providers))]
      s2 == Emit(s1, Status("switched", TRUE, 3000, 0, NaN), Log("switched", 0, NaN))
  IN sendEmail([s2 EXCEPT !.c.cycle = @ + 1])

\* the sleep resolved: attempt++ and the loop test
AfterSleep(s) ==
  LET s1 == [s EXCEPT !.c.attempt = @ + 1] IN
  IF s1.c.attempt <= maxRetries THEN TrySend(s1) ELSE Exhausted(s1)

\* ---------------------------------------------------------- state machine
NoCall ==
  [pc |-> "idle", msg |-> <<>>, attempt |-> 0, target |-> NaN, sends |-> 0,
   cycle |-> 0, slept |-> <<>>, out |-> <<>>]

\* constructor(providers)
Constructor(ps) ==
  /\ providers = ps
  /\ currentProviderIndex = 0
  /\ emailCache = {}
  /\ sentEmails = 0

Init ==
  /\ \E ps \in Rosters : Constructor(ps)
  /\ calls = [c \in Calls |-> NoCall]
  /\ window = {}
  /\ prev = {}

Service(c) ==
  [emailCache |-> emailCache, sentEmails |-> sentEmails, idx |-> currentProviderIndex, c |-> calls[c]]

Commit(c, s) ==
  /\ emailCache' = s.emailCache
  /\ sentEmails' = s.sentEmails
  /\ currentProviderIndex' = s.idx
  /\ calls' = [calls EXCEPT ![c] = s.c]
  /\ UNCHANGED <<providers, prev>>

\* emailService.sendEmail(email, subject, body); the calls are numbered in
\* the order they are made, the messages without separator are taken in
\* order (they are interchangeable), and at most MaxInFlight calls are
\* suspended at a time.
Call(c, m) ==
  /\ calls[c].pc = "idle"
  /\ \A d \in Calls : d < c => calls[d].pc # "idle"
  /\ \A i \in 2..MaxMsgs : m = Plain(i) => \E d \in Calls : calls[d].msg = Plain(i - 1)
  /\ Cardinality({d \in Calls : calls[d].pc \in {"awaitSend", "sleep"}}) < MaxInFlight
  /\ Commit(c, sendEmail([Service(c) EXCEPT !.c.msg = m, !.c.cycle = 1]))
  /\ window' = window \cup {c}

\* the awaited send settles with result r
SendReturn(c, r) ==
  /\ calls[c].pc = "awaitSend"
  /\ r \in Results(providers[calls[c].target + 1])
  /\ Commit(c, IF r = "ok" THEN SendSucceeded(Service(c)) ELSE CatchSendError(Service(c)))
  /\ UNCHANGED window

\* the backoff timer of the call fires
Wake(c) ==
  /\ calls[c].pc = "sleep"
  /\ Commit(c, AfterSleep(Service(c)))
  /\ UNCHANGED window

\* setInterval(() => { this.sentEmails = 0; }, 60000); window is the set
\* of calls made since the timer last fired.
Reset ==
  /\ sentEmails' = 0
  /\ window' = {}
  /\ UNCHANGED prev
  /\ UNCHANGED <<providers, currentProviderIndex, emailCache, calls>>

Next ==
  \/ \E c \in Calls, m \in Messages : Call(c, m)
  \/ \E c \in Calls, r \in {"ok", "fail"} : SendReturn(c, r)
  \/ \E c \in Calls : Wake(c)
  \/ Reset

Spec == Init /\ [][Next]_vars

\* ------------------------------------------- calls made one after the other
\* The caller awaits every sendEmail call before it makes the next one, as
\* the submit handler does; more calls and messages fit in this way.
SeqCalls == 1..MaxSeqCalls

SeqMessages == CollidingPair \cup {Plain(i) : i \in 1..MaxSeqMsgs}

\* the roster the submit handler builds, and the scenario roster
SeqRosters == {<<"random", "random">>, ScenarioRoster}

SeqInit ==
  /\ \E ps \in SeqRosters : Constructor(ps)
  /\ calls = [c \in SeqCalls |-> NoCall]
  /\ window = {}
  /\ prev = {}

\* await emailService.sendEmail(email, subject, body)
SeqCall(c, m) ==
  /\ calls[c].pc = "idle"
  /\ \A d \in SeqCalls : d < c => calls[d].pc = "done"
  /\ \A i \in 2..MaxSeqMsgs : m = Plain(i) => \E d \in SeqCalls : calls[d].msg = Plain(i - 1)
  /\ Commit(c, sendEmail([Service(c) EXCEPT !.c.msg = m, !.c.cycle = 1]))
  /\ window' = window \cup {c}

\* the interval timer; prev is the set of calls made between the two
\* firings before the last one
SeqReset ==
  /\ sentEmails' = 0
  /\ window' = {}
  /\ prev' = window
  /\ UNCHANGED <<providers, currentProviderIndex, emailCache, calls>>

SeqNext ==
  \/ \E c \in SeqCalls, m \in SeqMessages : SeqCall(c, m)
  \/ \E c \in SeqCalls, r \in {"ok", "fail"} : SendReturn(c, r)
  \/ \E c \in SeqCalls : Wake(c)
  \/ SeqReset

SeqSpec == SeqInit /\ [][SeqNext]_vars

\* ------------------------------------------------------ reading the state
Started(c) == calls[c].pc # "idle"

Done(c) == calls[c].pc = "done"

HasEvent(c, t, k) == \E i \in 1..Len(calls[c].out) : calls[c].out[i].t = t /\ calls[c].out[i].k = k

\* the call passed the duplicate check and the rate check
Proceeded(c) ==
  /\ Started(c)
  /\ calls[c].out # <<>> => calls[c].out[1].k \notin {"duplicate", "ratelimited"}

DuplicateEvents == <<Status("duplicate", TRUE, 3000, 0, NaN), Log("duplicate", 0, NaN)>>

RateLimitedEvents == <<Status("ratelimited", TRUE, 3000, 0, NaN), Log("ratelimited", 0, NaN)>>

\* the call did nothing but report a duplicate
DuplicateOnly(c) == Done(c) /\ calls[c].out = DuplicateEvents /\ calls[c].sends = 0

\* the last status event of a call
LastStatus(c) == calls[c].out[Len(calls[c].out) - 1]

\* the message of call c was not passed to any earlier call
FreshMessage(c) == \A d \in Calls : d < c => calls[d].msg # calls[c].msg

\* the calls with a fresh message made before call c in the same window
EarlierInWindow(c) == {d \in window : d < c /\ FreshMessage(d)}

ExpectedDelays == <<1000, 2000, 4000>>

C2_RateLimitPerWindow ==
  \A c \in Calls :
    c \in window /\ FreshMessage(c) =>
      IF Cardinality(EarlierInWindow(c)) < rateLimit
      THEN Proceeded(c)
      ELSE Done(c) /\ calls[c].out = RateLimitedEvents /\ calls[c].sends = 0

\* ------------------------------------------------------------------ C3
\* C3: the rate counter stays within 0..rateLimit in every reachable
\* state, whatever calls and timer resets are interleaved.
C3_CounterWithinLimit == sentEmails \in 0..rateLimit

C3_Witness ==
  /\ sentEmails = rateLimit
  /\ \E c \in Calls : Done(c) /\ calls[c].out = RateLimitedEvents
  /\ \E c \in Calls : calls[c].pc \in {"awaitSend", "sleep"}

\* ------------------------------------------------------------------ C4
\* C4: once the active provider has failed maxRetries times and the
\* switched-provider event is out, the call has begun a new attempt cycle
\* on the new provider, i.e. it has invoked a provider a further time.
C4_NewCycleAfterSwitch ==
  \A c \in Calls :
    HasEvent(c, "status", "switched") /\ Len(providers) > 0 =>
      calls[c].sends > maxRetries

\* ------------------------------------------------------------------ C5
\* C5: when the roster holds a provider that succeeds whenever tried, a
\* call that was neither a duplicate nor rate limited ends with a success
\* status, naming P2 when the roster is [P1 always fails, P2 always
\* succeeds] and P1 was tried maxRetries times.
C5_EndsWithSuccess ==
  \A c \in Calls :
    /\ Done(c) /\ Proceeded(c)
    /\ \E i \in 1..Len(providers) : providers[i] = "ok"
    => LastStatus(c).k = "success"
       /\ (providers = ScenarioRoster /\ calls[c].sends >= maxRetries => LastStatus(c).provider = 1)

\* ------------------------------------------------------------------ C6
\* C6: the delay slept after failed attempt k of a cycle is
\* 1000 * 2^(k-1) ms, that is 1000, 2000, 4000, strictly increasing.
C6_BackoffDelays ==
  \A c \in Calls :
    /\ \A i \in 1..Len(calls[c].slept) :
         calls[c].slept[i] = ExpectedDelays[((i - 1) % maxRetries) + 1]
    /\ calls[c].pc = "sleep" =>
         /\ calls[c].slept[Len(calls[c].slept)] = ExpectedDelays[calls[c].attempt]
         /\ calls[c].attempt > 1 =>
              calls[c].slept[Len(calls[c].slept)] > calls[c].slept[Len(calls[c].slept) - 1]

C6_Witness ==
  \E c \in Calls : calls[c].pc = "sleep" /\ calls[c].attempt = maxRetries /\ calls[c].slept = ExpectedDelays

\* ------------------------------------------------------------------ C7
\* C7: no failure of a provider send leaves sendEmail as an exception:
\* a call is never in the thrown state, and a finished call ended by one
\* of its return statements after emitting its status and log events.
C7_NoErrorPropagates ==
  \A c \in Calls :
    /\ calls[c].pc \in {"idle", "awaitSend", "sleep", "done"}
    /\ Done(c) => LastStatus(c).k \in {"duplicate", "ratelimited", "success"}
    /\ Len(calls[c].slept) > 0 =>
         /\ calls[c].out[1].t = "status" /\ calls[c].out[1].k = "failed"
         /\ calls[c].out[2].t = "log" /\ calls[c].out[2].k = "failed"

C7_Witness ==
  \E c \in Calls : Done(c) /\ Len(calls[c].slept) = maxRetries /\ calls[c].sends = maxRetries

\* ------------------------------------------------------------------ C8
\* C8: the active provider index is always an integer in
\* 0..length-1 of the roster.
C8_IndexValid == currentProviderIndex \in 0..(Len(providers) - 1)

\* ------------------------------------------------------------------ C9
\* C9: no service with an empty roster ever reaches sendEmail.
C9_EmptyRosterRejected == \A c \in Calls : Started(c) => Len(providers) > 0

\* ------------------------------------------------------------------ C10
\* C10: a sendEmail call whose fingerprint is already cached emits the
\* duplicate status and returns, leaving the cache, the rate counter and
\* the active provider index as they were and invoking no provider.
C10_DuplicateStep ==
  \A c \in Calls :
    /\ calls[c].pc = "idle" /\ calls'[c].pc # "idle"
    /\ generateCacheKey(calls'[c].msg) \in emailCache
    => /\ emailCache' = emailCache
       /\ sentEmails' = sentEmails
       /\ currentProviderIndex' = currentProviderIndex
       /\ calls'[c].pc = "done"
       /\ calls'[c].out = DuplicateEvents
       /\ calls'[c].sends = 0

C10_DuplicateNoSideEffects == [][C10_DuplicateStep]_vars

C10_Witness ==
  \E c, d \in Calls :
    /\ d < c /\ DuplicateOnly(c)
    /\ calls[d].pc \in {"awaitSend", "sleep"}
    /\ calls[d].msg # calls[c].msg
    /\ sentEmails = 1

\* the number of events of one type and kind a call has emitted
RECURSIVE CountEvents(_, _, _)
CountEvents(out, t, k) ==
  IF out = <<>> THEN 0
  ELSE (IF out[1].t = t /\ out[1].k = k THEN 1 ELSE 0) + CountEvents(Tail(out), t, k)

EventKinds == {"duplicate", "ratelimited", "failed", "switched", "success"}

\* ------------------------------------------------------------------ C11
\* C11: a sendEmail call that passes the duplicate check adds exactly one
\* to the counter and proceeds if and only if sentEmails < rateLimit;
\* otherwise it emits the rate-limited event and leaves the counter and
\* the active provider index unchanged.
C11_RateCheckStep ==
  \A c \in Calls :
    /\ calls[c].pc = "idle" /\ calls'[c].pc # "idle"
    /\ generateCacheKey(calls'[c].msg) \notin emailCache
    => IF sentEmails < rateLimit
       THEN /\ sentEmails' = sentEmails + 1
            /\ calls'[c].pc \in {"awaitSend", "sleep"}
            /\ ~HasEvent(c, "status", "ratelimited")'
       ELSE /\ sentEmails' = sentEmails
            /\ currentProviderIndex' = currentProviderIndex
            /\ calls'[c].pc = "done"
            /\ calls'[c].out = RateLimitedEvents
            /\ calls'[c].sends = 0

C11_RateCheck == [][C11_RateCheckStep]_vars

C11_Witness ==
  \E c, d \in Calls :
    /\ d < c /\ {c, d} \subseteq window
    /\ calls[d].pc \in {"awaitSend", "sleep"}
    /\ calls[c].out = RateLimitedEvents
    /\ sentEmails = rateLimit

\* ------------------------------------------------------------------ C13
\* C13: only the window timer lowers sentEmails (to 0); no step of a
\* sendEmail call, whatever its outcome, decreases it.
C13_OnlyTimerResets ==
  [][sentEmails' < sentEmails => sentEmails' = 0 /\ calls' = calls]_vars

C13_Witness ==
  \E c \in window :
    /\ Done(c) /\ HasEvent(c, "status", "switched")
    /\ CountEvents(calls[c].out, "status", "failed") = maxRetries
    /\ sentEmails = 1

\* ------------------------------------------------------------------ C14
\* C14: the attempts of one call are strictly sequential: a call has at
\* most one send outstanding (every other send it made has settled and
\* was reported by a failed or success event), and every send after the
\* first was invoked after the backoff sleep that followed the previous
\* one had ended.
C14_AttemptsSequential ==
  \A c \in Calls :
    LET slept == Len(calls[c].slept) - (IF calls[c].pc = "sleep" THEN 1 ELSE 0)
        settled == Len(calls[c].out) \div 2 - (IF calls[c].cycle = 2 THEN 2 ELSE 0)
    IN Len(providers) > 0 /\ Proceeded(c) =>
         /\ calls[c].sends - settled = (IF calls[c].pc = "awaitSend" THEN 1 ELSE 0)
         /\ calls[c].sends > 0 => calls[c].sends <= 1 + slept
         /\ calls[c].pc = "awaitSend" => calls[c].sends = calls[c].attempt

C14_Witness ==
  \E c, d \in Calls :
    /\ c # d
    /\ calls[c].pc = "awaitSend" /\ calls[c].attempt = maxRetries
    /\ calls[d].pc = "sleep"

\* ------------------------------------------------------------------ C16
\* C16: the events of a call come in pairs, a status event immediately
\* followed by the log event of the same kind, one pair per duplicate,
\* rate-limited return, failed attempt, provider switch and success.
C16_LogWithEveryStatus ==
  \A c \in Calls :
    /\ Len(calls[c].out) % 2 = 0
    /\ \A j \in 1..(Len(calls[c].out) \div 2) :
         /\ calls[c].out[2 * j - 1].t = "status"
         /\ calls[c].out[2 * j - 1].k \in EventKinds
         /\ calls[c].out[2 * j].t = "log"
         /\ calls[c].out[2 * j].k = calls[c].out[2 * j - 1].k
    /\ Done(c) => calls[c].out # <<>>

C16_Witness ==
  \E c \in Calls :
    /\ Done(c)
    /\ CountEvents(calls[c].out, "log", "failed") = 2
    /\ CountEvents(calls[c].out, "log", "success") = 1

C18_SuccessNamesSender ==
  \A c \in Calls :
    Done(c) /\ LastStatus(c).k = "success" => LastStatus(c).provider = calls[c].target

\* ------------------------------------------------------------------ C19
\* C19: a send made after a backoff sleep goes to the same provider as
\* the send before that sleep, so all sends of a retry cycle go to the
\* provider that was active when the cycle began.
C19_SameProviderStep ==
  \A c \in Calls :
    calls[c].pc = "sleep" /\ calls'[c].pc = "awaitSend" /\ calls[c].sends > 0
    => calls'[c].target = calls[c].target

C19_OneProviderPerCycle == [][C19_SameProviderStep]_vars

\* ------------------------------------------------------------------ C20
\* C20: a call is treated as a duplicate only if an earlier call had the
\* same recipient, subject and body.
C20_DuplicateOnlyIfEqual ==
  \A c \in Calls :
    Started(c) /\ calls[c].out # <<>> /\ calls[c].out[1].k = "duplicate"
    => \E d \in Calls : d < c /\ calls[d].msg = calls[c].msg

\* ------------------------------------------------------------------ C12
\* C12: the key of every call that was not a duplicate is in the cache as
\* soon as the call has started, rate limited or not, no key ever leaves
\* the cache, and every later call with the same message, in whatever
\* window, only reports a duplicate and invokes no provider.
C12_RecordedState ==
  \A c \in DOMAIN calls :
    Started(c) =>
      /\ generateCacheKey(calls[c].msg) \in emailCache
      /\ \A d \in DOMAIN calls :
           c < d /\ Started(d) /\ calls[d].msg = calls[c].msg => DuplicateOnly(d)

C12_RecordedForever == []C12_RecordedState /\ [][emailCache \subseteq emailCache']_vars

C12_Witness ==
  \E c, d \in DOMAIN calls :
    /\ c < d /\ calls[d].msg = calls[c].msg
    /\ calls[c].out = RateLimitedEvents
    /\ c \notin window /\ d \in window /\ sentEmails < rateLimit
    /\ DuplicateOnly(d)

\* ------------------------------------------------------------------ C15
\* C15: at most rateLimit calls proceed to provider dispatch in one
\* window, so at most 2 * rateLimit proceed in two adjacent windows (a
\* span with exactly one timer reset), and 2 * rateLimit is reached.
Dispatched(S) == {c \in S : Proceeded(c)}

C15_FixedWindowBurst ==
  /\ Cardinality(Dispatched(window)) <= rateLimit
  /\ Cardinality(Dispatched(prev)) <= rateLimit
  /\ Cardinality(Dispatched(window \cup prev)) <= 2 * rateLimit

C15_Witness ==
  /\ Cardinality(Dispatched(prev)) = rateLimit
  /\ Cardinality(Dispatched(window)) = rateLimit
  /\ \A c, d \in window \cup prev : c # d => calls[c].msg # calls[d].msg

====
